---- MODULE Spec2Model ----
(***************************************************************************)
(* nexq: the cache-backed task queue (internal/queue/queue.go), the task   *)
(* model (internal/task/task.go) and the worker loop                       *)
(* (internal/worker/worker.go).                                            *)
(*                                                                         *)
(* Every process (a worker, or an API client calling the queue) advances   *)
(* one cache command at a time: reads and writes against the shared cache  *)
(* are the suspension points, purely local computation is attached to the  *)
(* cache command that follows it.  Optional timestamps (started_at,        *)
(* completed_at, moved_to_dlq_at) are modelled by their presence; the      *)
(* clock and scheduled_at are in seconds.                                  *)
(***************************************************************************)
EXTENDS Integers, Sequences, FiniteSets, TLC

\* ------------------------------------------------------------------ bounds
\* number of processes that are in the middle of an operation at one time
MaxActive == 2
\* workers keep polling while queue:tail is below this (or below the smaller
\* number of its workload)
MaxSeq == 6
\* number of clock advances explored
MaxTicks == 1
\* largest schedule_in (seconds) of a report payload
MaxScheduleIn == 2

\* ------------------------------------------------------- program constants
\* worker.go: backoffDuration := RetryCount * 10 * time.Second
BackoffSeconds == 10

Workers == {"w1", "w2"}
Clients == {"c1", "c2"}
Procs == Workers \cup Clients
TaskIDs == {"a", "b"}

PendingStatus == "pending"
RunningStatus == "running"
CompletedStatus == "completed"
FailedStatus == "failed"
CancelledStatus == "cancelled"
DeadLetterStatus == "dead_letter"

LowPriority == 0
MediumPriority == 1
HighPriority == 2

\* The errors Dequeue returns: nil, and the cache client's error for a key
\* that does not exist.
NoError == ""
RedisNil == "redis: nil"

\* Handler registry of the worker: task type -> the errors an invocation of
\* the registered handler may return ("" = nil).  The type "unknown" has no
\* registered handler.  The "slow" handler runs until its context's deadline
\* and returns ctx.Err(); the "flaky" handler fails on some invocations and
\* succeeds on others (a handler that depends on a database or a network).
DeadlineExceeded == "context deadline exceeded"
Handlers ==
    [ good |-> { "" }, boom |-> { "boom" }, slow |-> { DeadlineExceeded },
      flaky |-> { "", "boom" } ]

\* Every error a registered handler may return.
HandlerErrors == UNION { Handlers[ty] : ty \in DOMAIN Handlers }

\* What producers submit (TaskRequest): type, priority, schedule_in (seconds).
Templates ==
    { [type |-> "boom",    priority |-> LowPriority,    delay |-> 0],
      [type |-> "good",    priority |-> HighPriority,   delay |-> BackoffSeconds],
      [type |-> "unknown", priority |-> MediumPriority, delay |-> 0],
      [type |-> "slow",    priority |-> MediumPriority, delay |-> 0],
      [type |-> "flaky",   priority |-> LowPriority,    delay |-> 0] }

TaskTypes == { tpl.type : tpl \in Templates }

\* What one run may do: how many tasks are submitted, how many cancel_task,
\* retry_dead_letter and purge_dead_letter calls are issued, and for how many
\* workers Stop is called; faults is the number of errors the run meets in
\* retry_dead_letter and Enqueue (a retry_dead_letter call for an id without
\* a dead-letter record, a cache command of Enqueue that fails).  ticks is
\* the number of clock advances of the run, the workers of the run poll
\* while queue:tail is below seqs, and types are the task types its producers
\* submit.  The run with two retry_dead_letter calls has a task whose handler
\* always fails and one whose handler fails on some invocations only; the
\* types "slow" and "unknown" take the failure path of "boom".
Workloads ==
    { [submits |-> 2, cancels |-> 0, retries |-> 0, purges |-> 0, stops |-> 0, faults |-> 0,
       ticks |-> 0, seqs |-> MaxSeq - 3, types |-> TaskTypes],
      [submits |-> 1, cancels |-> 1, retries |-> 0, purges |-> 0, stops |-> 0, faults |-> 0,
       ticks |-> 0, seqs |-> MaxSeq - 3, types |-> TaskTypes],
      [submits |-> 1, cancels |-> 0, retries |-> 2, purges |-> 0, stops |-> 0, faults |-> 0,
       ticks |-> 0, seqs |-> MaxSeq, types |-> { "boom", "flaky" }],
      [submits |-> 1, cancels |-> 0, retries |-> 0, purges |-> 2, stops |-> 0, faults |-> 0,
       ticks |-> MaxTicks, seqs |-> MaxSeq - 1, types |-> TaskTypes],
      [submits |-> 1, cancels |-> 0, retries |-> 0, purges |-> 0, stops |-> 1, faults |-> 0,
       ticks |-> 0, seqs |-> MaxSeq - 1, types |-> TaskTypes],
      [submits |-> 1, cancels |-> 0, retries |-> 1, purges |-> 0, stops |-> 0, faults |-> 1,
       ticks |-> 0, seqs |-> MaxSeq - 1, types |-> TaskTypes] }

\* NewQueue(addr, repo): no history store (repo == nil), a store whose calls
\* succeed, a store whose every call returns an error.
RepoModes == { "none", "up", "down" }

\* The stores a workload is explored with.
StoresFor(b) ==
    IF b.submits > 1 \/ b.purges > 0 \/ b.stops > 0 \/ b.faults > 0
      THEN { "none" }
      ELSE RepoModes

VARIABLES
    now,        \* wall clock, seconds
    head,       \* queue:head
    tail,       \* queue:tail
    item,       \* queue:item:{seq} -> task id   (a key is present iff in DOMAIN)
    rec,        \* task:{id} -> serialized task
    dlqTail,    \* dlq:tail
    dlqItem,    \* dlq:item:{seq} -> task id
    dlqRec,     \* dlq:task:{id} -> serialized task
    flag,       \* cancelled:{id} keys that are set
    pc,         \* position of every process
    lv,         \* locals of every process
    created,    \* id -> what the producer asked for, for the ids NewTask handed out
    invocations,\* id -> number of handler invocations so far
    assigned,   \* seq -> number of Enqueue calls that received it
    claimed,    \* seq -> number of Dequeue calls that claimed it
    returned,   \* seq -> number of Dequeue calls that returned its task
    pendingCancelled, \* ids whose cancel completed while no worker held them
    cancelTried,\* ids for which cancel_task was ever started
    dlqRetried, \* ids for which retry_dead_letter was ever started
    retriedSince, \* ids for which retry_dead_letter was called since they last entered the DLQ
    enqueueErr, \* ids whose producer got an error back from Enqueue
    budget,     \* API calls left to the clients
    repo,       \* the queue's history store: an element of RepoModes
    execLog,    \* task_execution_log: row -> number of copies
    completeCalls, \* id -> number of CompleteTask calls made to the store
    repoCalls,  \* << store method, id >> -> number of calls the worker's failure path made
    stop,       \* workers whose Stop() call waits to hand its value to the loop
    stopped,    \* workers whose Start() has returned
    stopBusy,   \* workers that held a task when Stop() was called for them
    dqErr,      \* worker -> err of its last Dequeue call, as processNextTask sees it
    hist,       \* task_history: task id -> row (status, retry_count)
    report      \* one call of the report handler: position, payload, context, result

queueVars == << now, head, tail, item, rec, dlqTail, dlqItem, dlqRec, flag, pc, lv,
                created, invocations, assigned, claimed, returned, pendingCancelled,
                cancelTried, dlqRetried, retriedSince, enqueueErr, budget, repo, hist,
                execLog, completeCalls, repoCalls, stop, stopped, stopBusy, dqErr >>

vars == << queueVars, report >>

cacheVars == << head, tail, item, rec, dlqTail, dlqItem, dlqRec, flag >>
ghostVars == << created, invocations, assigned, claimed, returned,
                pendingCancelled, cancelTried, dlqRetried, retriedSince, enqueueErr >>
loopVars == << stop, stopped, stopBusy, dqErr >>
stopVars == << stop, stopped, stopBusy >>
logVars == << execLog, completeCalls, repoCalls >>
execVars == << execLog, completeCalls >>
budgetVars == << budget, repo, loopVars >>

\* ------------------------------------------------------------- task model
NoTask ==
    [ id |-> "", type |-> "", priority |-> 0, status |-> "",
      retry_count |-> 0, max_retries |-> 0, scheduled_at |-> 0,
      started_at |-> FALSE, completed_at |-> FALSE, error |-> "",
      failure_reason |-> "", moved_to_dlq_at |-> FALSE ]

\* NewTask: MaxRetries defaults to 3, ScheduledAt to the creation time.
DefaultMaxRetries == 3

NewTask(id, taskType, priority, at) ==
    [ id |-> id, type |-> taskType, priority |-> priority,
      status |-> PendingStatus, retry_count |-> 0,
      max_retries |-> DefaultMaxRetries, scheduled_at |-> at,
      started_at |-> FALSE, completed_at |-> FALSE, error |-> "",
      failure_reason |-> "", moved_to_dlq_at |-> FALSE ]

\* The producer's task: NewTask, then ScheduledAt = now + schedule_in
\* (createTask); MaxRetries stays at NewTask's default.
CreateTask(id, tpl, at) ==
    [ NewTask(id, tpl.type, tpl.priority, at) EXCEPT !.scheduled_at = at + tpl.delay ]

\* json.Marshal with the struct tags: the omitempty fields are left out when
\* empty (nil pointer, empty string).
OmitEmpty == { "started_at", "completed_at", "error", "failure_reason", "moved_to_dlq_at" }
IsEmptyField(t, g) ==
    IF g \in { "error", "failure_reason" } THEN t[g] = "" ELSE t[g] = FALSE
ToJSON(t) ==
    [ f \in { g \in DOMAIN t : ~(g \in OmitEmpty /\ IsEmptyField(t, g)) } |-> t[f] ]

\* json.Unmarshal into a zero Task: absent keys keep the zero value.
TaskFromJSON(d) ==
    [ f \in DOMAIN NoTask |-> IF f \in DOMAIN d THEN d[f] ELSE NoTask[f] ]

ShouldMoveToDeadLetter(t) ==
    t.retry_count >= t.max_retries /\ t.status = FailedStatus

\* ------------------------------------------------------------ cache helpers
Put(f, k, v) == [ x \in DOMAIN f \cup {k} |-> IF x = k THEN v ELSE f[x] ]
Del(f, k) == [ x \in DOMAIN f \ {k} |-> f[x] ]
Count(f, k) == IF k \in DOMAIN f THEN f[k] ELSE 0
Bump(f, k) == Put(f, k, Count(f, k) + 1)

\* ------------------------------------------------------------ history store
\* task_history rows, by task id.  SaveTask is an upsert, the other calls
\* update the row of the id when there is one.
HistRow(t) == [ status |-> t.status, retry_count |-> t.retry_count ]
SaveTask(h, t) == Put(h, t.id, HistRow(t))
UpdateTaskStatus(h, id, status) ==
    IF id \in DOMAIN h THEN [h EXCEPT ![id].status = status] ELSE h
RepoCompleteTask(h, id) == UpdateTaskStatus(h, id, CompletedStatus)
RepoFailTask(h, id) == UpdateTaskStatus(h, id, FailedStatus)
MoveTaskToDLQ(h, id) == UpdateTaskStatus(h, id, DeadLetterStatus)
RepoIncrementRetryCount(h, id) ==
    IF id \in DOMAIN h THEN [h EXCEPT ![id].retry_count = @ + 1] ELSE h

\* What the store holds after a call that would leave it as h: calls are
\* made only when the queue has a store (q.repo != nil), and a failing call
\* writes nothing; its error is logged and the caller continues.
Stored(h) == IF repo = "up" THEN h ELSE hist

\* LogExecution: one INSERT into task_execution_log; with a failing store no
\* row is written.
LogRow(id, attempt, status, w) ==
    [ task_id |-> id, attempt_number |-> attempt, status |-> status, worker_id |-> w ]
LogExecution(l, row) == Bump(l, row)
Logged(l) == IF repo = "up" THEN l ELSE execLog

\* if q.repo != nil { q.repo.<call> }: with a store the process goes to the
\* position of the store call, without one straight to what follows it.
ViaStore(storePc, nextPc) == IF repo # "none" THEN storePc ELSE nextPc

\* No call of the report handler has been made; its context is live.
NoReport ==
    [ pc |-> "none", schedule_in |-> 0, report_type |-> "", format |-> "",
      start_time |-> "", end_time |-> "",
      db |-> "", ctx |-> "nil", left |-> 0, woke |-> "", err |-> "",
      file |-> FALSE, doneAt |-> "" ]

NoLocals == [ hd |-> 0, tl |-> 0, seq |-> 0, tid |-> "", t |-> NoTask, op |-> "" ]

Goto(p, where) == pc' = [pc EXCEPT ![p] = where]
Return(p) == /\ pc' = [pc EXCEPT ![p] = "idle"]
             /\ lv' = [lv EXCEPT ![p] = NoLocals]

\* A worker holds task id from the return of Dequeue to the end of the attempt.
HoldingPcs == { "pt_check", "pt_save", "pt_update", "pt_log", "handler",
                "hs_save", "hs_update", "hs_complete", "hs_log",
                "hf_log", "enq_save", "enq_incr", "enq_item", "enq_task",
                "rp_incr", "rp_fail",
                "hf_save", "hf_update", "dlq_move", "dlq_incr", "dlq_item", "dlq_task" }
Holds(w, id) == pc[w] \in HoldingPcs /\ lv[w].t.id = id

\* Processes in the middle of an operation; a process starts one only while
\* fewer than MaxActive are.
Active == { p \in Procs : pc[p] # "idle" }
MayStart(p) == pc[p] = "idle" /\ Cardinality(Active) < MaxActive

Init ==
    /\ now = 0
    /\ head = 0 /\ tail = 0 /\ item = << >> /\ rec = << >>
    /\ dlqTail = 0 /\ dlqItem = << >> /\ dlqRec = << >>
    /\ flag = {}
    /\ pc = [p \in Procs |-> "idle"]
    /\ lv = [p \in Procs |-> NoLocals]
    /\ created = << >>
    /\ invocations = [id \in TaskIDs |-> 0]
    /\ assigned = << >> /\ claimed = << >> /\ returned = << >>
    /\ pendingCancelled = {} /\ cancelTried = {} /\ dlqRetried = {}
    /\ retriedSince = {}
    /\ enqueueErr = {}
    /\ budget \in Workloads
    /\ repo \in StoresFor(budget)
    /\ hist = << >>
    /\ execLog = << >>
    /\ completeCalls = [id \in TaskIDs |-> 0]
    /\ repoCalls = << >>
    /\ stop = {} /\ stopped = {} /\ stopBusy = {}
    /\ dqErr = [w \in Workers |-> NoError]
    /\ report = NoReport

\* ------------------------------------------------------------------ clock
Tick ==
    /\ now < budget.ticks * BackoffSeconds
    /\ now' = now + BackoffSeconds
    /\ UNCHANGED << cacheVars, pc, lv, ghostVars, budgetVars, hist, logVars, report >>

\* ---------------------------------------------------------------- Enqueue
\* Enqueue begins with repo.SaveTask when the queue has a store, otherwise
\* with Incr("queue:tail").
EnqueuePc == ViaStore("enq_save", "enq_incr")

\* Enqueue with a history store: t.Status = pending, repo.SaveTask(t).
EnqueueStatus(t, r) == IF r # "none" THEN [t EXCEPT !.status = PendingStatus] ELSE t

EnqueueSaveTask(p) ==
    /\ pc[p] = "enq_save"
    /\ lv' = [lv EXCEPT ![p].t = EnqueueStatus(@, repo)]
    /\ hist' = Stored(SaveTask(hist, EnqueueStatus(lv[p].t, repo)))
    /\ Goto(p, "enq_incr")
    /\ UNCHANGED << now, report, cacheVars, ghostVars, budgetVars, logVars >>

\* Incr("queue:tail") is one atomic cache command returning the new value.
IncrTail == tail + 1

EnqueueIncrTail(p) ==
    /\ pc[p] = "enq_incr"
    /\ tail' = IncrTail
    /\ lv' = [lv EXCEPT ![p].seq = IncrTail]
    /\ assigned' = Bump(assigned, IncrTail)
    /\ Goto(p, "enq_item")
    /\ UNCHANGED << now, report, head, item, rec, dlqTail, dlqItem, dlqRec, flag,
                    created, invocations, claimed, returned, pendingCancelled,
                    cancelTried, dlqRetried, retriedSince, enqueueErr,
                    budgetVars, hist, logVars >>

EnqueueSetItem(p) ==
    /\ pc[p] = "enq_item"
    /\ item' = Put(item, lv[p].seq, lv[p].t.id)
    /\ Goto(p, "enq_task")
    /\ UNCHANGED << now, report, head, tail, rec, dlqTail, dlqItem, dlqRec, flag, lv,
                    ghostVars, budgetVars, hist, logVars >>

\* Where the caller of Enqueue continues: RetryDeadLetterTask deletes the DLQ
\* record, the worker's retry path calls IncrementRetryCount, the producer is
\* done.
AfterEnqueue(p) ==
    IF lv[p].op = "retry_dlq" THEN "rd_del"
    ELSE IF p \in Workers THEN ViaStore("rp_incr", "idle")
    ELSE "idle"

Continue(p, where) ==
    IF where = "idle" THEN Return(p) ELSE Goto(p, where) /\ lv' = lv

EnqueueSetTask(p) ==
    /\ pc[p] = "enq_task"
    /\ rec' = Put(rec, lv[p].t.id, ToJSON(lv[p].t))
    /\ Continue(p, AfterEnqueue(p))
    /\ UNCHANGED << now, report, head, tail, item, dlqTail, dlqItem, dlqRec, flag,
                    ghostVars, budgetVars, hist, logVars >>

\* handleTaskFailure, retry branch, after Enqueue: IncrementRetryCount(id),
\* then FailTask(t, ...).
RetryIncrementRetryCount(w) ==
    /\ pc[w] = "rp_incr"
    /\ hist' = Stored(RepoIncrementRetryCount(hist, lv[w].t.id))
    /\ repoCalls' = Bump(repoCalls, << "IncrementRetryCount", lv[w].t.id >>)
    /\ Goto(w, "rp_fail")
    /\ UNCHANGED << now, report, cacheVars, lv, ghostVars, budgetVars, execVars >>

RetryFailTask(w) ==
    /\ pc[w] = "rp_fail"
    /\ hist' = Stored(RepoFailTask(hist, lv[w].t.id))
    /\ repoCalls' = Bump(repoCalls, << "FailTask", lv[w].t.id >>)
    /\ Return(w)
    /\ UNCHANGED << now, report, cacheVars, ghostVars, budgetVars, execVars >>

\* A cache command of Enqueue fails (Incr, or one of the two Sets): Enqueue
\* returns the error at once and the command has written nothing.  The
\* producer and RetryDeadLetterTask return the error to their caller;
\* handleTaskFailure logs it and goes on to IncrementRetryCount and FailTask.
EnqueueFails(p) ==
    /\ pc[p] \in { "enq_incr", "enq_item", "enq_task" }
    /\ budget.faults > 0
    /\ budget' = [budget EXCEPT !.faults = @ - 1]
    /\ enqueueErr' = IF lv[p].op = "submit" THEN enqueueErr \cup { lv[p].t.id } ELSE enqueueErr
    /\ Continue(p, IF p \in Workers THEN ViaStore("rp_incr", "idle") ELSE "idle")
    /\ UNCHANGED << now, report, cacheVars, created, invocations, assigned, claimed,
                    returned, pendingCancelled, cancelTried, dlqRetried, retriedSince,
                    repo, loopVars, hist, logVars >>

\* NewTask draws a fresh id (uuid.New()); ids carry no meaning, so they are
\* handed out in one fixed order.
IdOrder == << "a", "b" >>
FreshID == IdOrder[Cardinality(DOMAIN created) + 1]

\* A producer: NewTask (fresh id), schedule_in applied, then Enqueue.
Submit(c, id, tpl) ==
    /\ MayStart(c)
    /\ budget.submits > 0
    /\ tpl.type \in budget.types
    /\ id \notin DOMAIN created
    /\ id = FreshID
    /\ budget' = [budget EXCEPT !.submits = @ - 1]
    /\ created' = Put(created, id, tpl)
    /\ lv' = [lv EXCEPT ![c] = [NoLocals EXCEPT !.t = CreateTask(id, tpl, now), !.op = "submit"]]
    /\ Goto(c, EnqueuePc)
    /\ UNCHANGED << now, report, cacheVars, invocations, assigned, claimed, returned,
                    pendingCancelled, cancelTried, dlqRetried, retriedSince, enqueueErr,
                    repo, hist, logVars, loopVars >>

\* ---------------------------------------------------------------- Dequeue
\* Dequeue returns (task or nil, err) to processNextTask.
DequeueReturns(w, err) == dqErr' = [dqErr EXCEPT ![w] = err]

DequeueGetHead(w) ==
    /\ MayStart(w)
    /\ w \notin stopped
    /\ tail < budget.seqs
    /\ lv' = [lv EXCEPT ![w].hd = head]
    /\ Goto(w, "dq_tail")
    /\ DequeueReturns(w, NoError)
    /\ UNCHANGED << now, report, cacheVars, ghostVars, budget, repo, stopVars, hist, logVars >>

\* head >= tail: return nil, nil
DequeueGetTail(w) ==
    /\ pc[w] = "dq_tail"
    /\ IF lv[w].hd >= tail
         THEN Return(w)
         ELSE Goto(w, "dq_incr") /\ lv' = [lv EXCEPT ![w].tl = tail]
    /\ UNCHANGED << now, report, cacheVars, ghostVars, budgetVars, hist, logVars >>

\* Variant of IncrHead: the new head computed from the value the caller read
\* earlier instead of by the cache's atomic increment.
IncrHeadStale(w) == lv[w].hd + 1

\* Incr("queue:head"): atomic, returns the new value.
IncrHead(w) == head + 1

DequeueIncrHead(w) ==
    /\ pc[w] = "dq_incr"
    /\ head' = IncrHead(w)
    /\ lv' = [lv EXCEPT ![w].seq = IncrHead(w)]
    /\ claimed' = Bump(claimed, IncrHead(w))
    /\ Goto(w, "dq_item")
    /\ UNCHANGED << now, report, tail, item, rec, dlqTail, dlqItem, dlqRec, flag,
                    created, invocations, assigned, returned, pendingCancelled,
                    cancelTried, dlqRetried, retriedSince, enqueueErr,
                    budgetVars, hist, logVars >>

\* Get(itemKey): on an error (the key is missing) return nil, nil
DequeueGetItem(w) ==
    /\ pc[w] = "dq_item"
    /\ IF lv[w].seq \in DOMAIN item
         THEN Goto(w, "dq_task") /\ lv' = [lv EXCEPT ![w].tid = item[lv[w].seq]]
         ELSE Return(w)
    /\ UNCHANGED << now, report, cacheVars, ghostVars, budgetVars, hist, logVars >>

\* Variant of GetTaskErr: a record whose scheduled_at lies in the future is
\* treated as missing.
GetTaskErrNotDue(id) ==
    IF id \in DOMAIN rec /\ rec[id].scheduled_at <= now THEN NoError ELSE RedisNil

\* Get("task:"+taskID): the error of the read, returned as it is
GetTaskErr(id) == IF id \in DOMAIN rec THEN NoError ELSE RedisNil

\* Get("task:"+taskID): on an error (the record is missing) return nil, err
DequeueGetTask(w) ==
    /\ pc[w] = "dq_task"
    /\ IF GetTaskErr(lv[w].tid) = NoError
         THEN /\ Goto(w, ViaStore("dq_status", "dq_del"))
              /\ lv' = [lv EXCEPT ![w].t = TaskFromJSON(rec[lv[w].tid])]
         ELSE Return(w)
    /\ DequeueReturns(w, GetTaskErr(lv[w].tid))
    /\ UNCHANGED << now, report, cacheVars, ghostVars, budget, repo, stopVars, hist, logVars >>

\* Variant of DequeueStatus: the returned task is marked running only when
\* the store took the update.
DequeueStatusIfStored(t, r) == IF r = "up" THEN [t EXCEPT !.status = RunningStatus] ELSE t

\* With a history store Dequeue sets t.Status = running on the task it
\* returns and calls repo.UpdateTaskStatus(id, running).
DequeueStatus(t, r) == IF r # "none" THEN [t EXCEPT !.status = RunningStatus] ELSE t

DequeueUpdateStatus(w) ==
    /\ pc[w] = "dq_status"
    /\ lv' = [lv EXCEPT ![w].t = DequeueStatus(@, repo)]
    /\ hist' = Stored(UpdateTaskStatus(hist, lv[w].t.id, RunningStatus))
    /\ Goto(w, "dq_del")
    /\ UNCHANGED << now, report, cacheVars, ghostVars, budgetVars, logVars >>

\* Del(itemKey)
DequeueDeleteItem(w) ==
    /\ pc[w] = "dq_del"
    /\ item' = Del(item, lv[w].seq)
    /\ Goto(w, "dq_del_task")
    /\ UNCHANGED << now, report, head, tail, rec, dlqTail, dlqItem, dlqRec, flag, lv,
                    ghostVars, budgetVars, hist, logVars >>

\* Del("task:"+taskID); return t, nil
DequeueDelete(w) ==
    /\ pc[w] = "dq_del_task"
    /\ rec' = Del(rec, lv[w].tid)
    /\ returned' = Bump(returned, lv[w].seq)
    /\ Goto(w, "pt_check")
    /\ UNCHANGED << now, report, head, tail, item, dlqTail, dlqItem, dlqRec, flag, lv,
                    created, invocations, assigned, claimed, pendingCancelled,
                    cancelTried, dlqRetried, retriedSince, enqueueErr,
                    budgetVars, hist, logVars >>

\* ------------------------------------------------------------ cancellation
\* is_cancelled(id) returns (cancelled, err): an error for an id that has no
\* task record, otherwise the value of the sticky cancelled:{id} flag.
IsCancelled(id) ==
    IF id \in DOMAIN rec
      THEN [cancelled |-> id \in flag, err |-> NoError]
      ELSE [cancelled |-> FALSE, err |-> "task not found"]

TerminalStatuses == { CompletedStatus, CancelledStatus, DeadLetterStatus }

\* cancel_task, first cache command: load task:{id}.  A missing task
\* ("task not found") and a terminal status ("cannot cancel") return an error
\* and change nothing.
CancelGetTask(c, id) ==
    /\ MayStart(c)
    /\ budget.cancels > 0
    /\ id \in DOMAIN rec
    /\ rec[id].status \notin TerminalStatuses
    /\ budget' = [budget EXCEPT !.cancels = @ - 1]
    /\ cancelTried' = cancelTried \cup {id}
    /\ lv' = [lv EXCEPT ![c] =
                [NoLocals EXCEPT !.op = "cancel", !.tid = id,
                    !.t = [TaskFromJSON(rec[id]) EXCEPT
                              !.status = CancelledStatus, !.completed_at = TRUE]]]
    /\ Goto(c, ViaStore("ct_status", "ct_update"))
    /\ UNCHANGED << now, report, cacheVars, created, invocations, assigned, claimed,
                    returned, pendingCancelled, dlqRetried, retriedSince, enqueueErr,
                    repo, hist, logVars, loopVars >>

\* cancel_task on a missing task ("task not found") or on a task whose status
\* is terminal ("cannot cancel"): the error is returned, nothing is written.
CancelRefused(c, id) ==
    /\ MayStart(c)
    /\ budget.cancels > 0
    /\ id \in DOMAIN created
    /\ (id \in DOMAIN rec => rec[id].status \in TerminalStatuses)
    /\ budget' = [budget EXCEPT !.cancels = @ - 1]
    /\ UNCHANGED << now, report, cacheVars, pc, lv, ghostVars, repo, hist, logVars, loopVars >>

\* UpdateTask(t): Set("task:"+id, json)
UpdateTask(t) == Put(rec, t.id, ToJSON(t))

\* UpdateTask(t) with a history store: repo.SaveTask(t) before the Set; its
\* error is logged only.
UpdateTaskSave(p, t, next) ==
    /\ hist' = Stored(SaveTask(hist, t))
    /\ lv' = [lv EXCEPT ![p].t = t]
    /\ Goto(p, next)
    /\ UNCHANGED << now, report, cacheVars, ghostVars, budgetVars, logVars >>

\* cancel_task with a history store: repo.UpdateTaskStatus(id, cancelled); its
\* error is logged only.
CancelUpdateStatus(c) ==
    /\ pc[c] = "ct_status"
    /\ hist' = Stored(UpdateTaskStatus(hist, lv[c].tid, CancelledStatus))
    /\ Goto(c, "ct_update")
    /\ UNCHANGED << now, report, cacheVars, lv, ghostVars, budgetVars, logVars >>

CancelUpdateTask(c) ==
    /\ pc[c] = "ct_update"
    /\ rec' = UpdateTask(lv[c].t)
    /\ Goto(c, "ct_flag")
    /\ UNCHANGED << now, report, head, tail, item, dlqTail, dlqItem, dlqRec, flag, lv,
                    ghostVars, budgetVars, hist, logVars >>

CancelSetFlag(c) ==
    /\ pc[c] = "ct_flag"
    /\ flag' = flag \cup {lv[c].tid}
    /\ pendingCancelled' =
         IF \A w \in Workers : ~Holds(w, lv[c].tid)
           THEN pendingCancelled \cup {lv[c].tid}
           ELSE pendingCancelled
    /\ Return(c)
    /\ UNCHANGED << now, report, head, tail, item, rec, dlqTail, dlqItem, dlqRec,
                    created, invocations, assigned, claimed, returned,
                    cancelTried, dlqRetried, retriedSince, enqueueErr,
                    budgetVars, hist, logVars >>

\* ------------------------------------------------------------ worker attempt
\* processTask: cancelled, err := IsCancelled(id); the task is skipped when
\* err == nil && cancelled.
SkipCancelled(id) == IsCancelled(id).err = NoError /\ IsCancelled(id).cancelled

\* t.Status = running; t.StartedAt = now, before UpdateTask(t) and its calls
MarkRunning(t) == [t EXCEPT !.status = RunningStatus, !.started_at = TRUE]

ProcessTaskCheckCancelled(w) ==
    /\ pc[w] = "pt_check"
    /\ IF SkipCancelled(lv[w].t.id)
         THEN Return(w)
         ELSE Goto(w, ViaStore("pt_save", "pt_update")) /\ lv' = lv
    /\ UNCHANGED << now, report, cacheVars, ghostVars, budgetVars, hist, logVars >>

\* Variant of RetryAllowed: one more retry than max_retries allows.
RetryAllowedOffByOne(t) == t.retry_count <= t.max_retries

\* handleTaskFailure: the retry branch is taken while RetryCount < MaxRetries.
RetryAllowed(t) == t.retry_count < t.max_retries

\* handleTaskFailure before LogExecution: t.RetryCount++; t.Error = err.
FailureCount(t, msg) == [t EXCEPT !.retry_count = @ + 1, !.error = msg]

\* handleTaskFailure after LogExecution: the retry branch makes the task
\* pending with the linear backoff, the other branch marks it failed.
FailureBranch(t, at) ==
    IF RetryAllowed(t)
      THEN [t EXCEPT !.status = PendingStatus,
                     !.scheduled_at = at + t.retry_count * BackoffSeconds]
      ELSE [t EXCEPT !.status = FailedStatus]

\* Variant of FailurePc: every failed attempt goes to the dead-letter path.
FailurePcDeadLetter(t) == ViaStore("hf_save", "hf_update")

\* The retry branch calls Enqueue, the other branch UpdateTask.
FailurePc(t) == IF t.status = PendingStatus THEN EnqueuePc ELSE ViaStore("hf_save", "hf_update")

NoHandlerError(type) == "no handler for task type: " \o type

\* handleTaskFailure(t, err): with a store LogExecution(failed) is called
\* between the increment of RetryCount and the branch, without one the branch
\* follows at once.
FailureStart(w, t, msg) ==
    IF repo # "none"
      THEN /\ lv' = [lv EXCEPT ![w].t = FailureCount(t, msg)]
           /\ Goto(w, "hf_log")
      ELSE LET t2 == FailureBranch(FailureCount(t, msg), now) IN
           /\ lv' = [lv EXCEPT ![w].t = t2]
           /\ Goto(w, FailurePc(t2))

\* The handler lookup: a registered handler is invoked, a missing one is a
\* failure of the attempt.
Dispatch(w, t) ==
    IF t.type \in DOMAIN Handlers
      THEN /\ lv' = [lv EXCEPT ![w].t = t]
           /\ invocations' = [invocations EXCEPT ![t.id] = @ + 1]
           /\ Goto(w, "handler")
      ELSE /\ FailureStart(w, t, NoHandlerError(t.type))
           /\ invocations' = invocations

\* UpdateTask(t), running: repo.SaveTask(t)
ProcessTaskSaveRunning(w) ==
    /\ pc[w] = "pt_save"
    /\ UpdateTaskSave(w, MarkRunning(lv[w].t), "pt_update")

\* UpdateTask(t), running: Set("task:"+id).  Without a store LogExecution
\* does nothing and the handler lookup follows.
ProcessTaskMarkRunning(w) ==
    /\ pc[w] = "pt_update"
    /\ rec' = UpdateTask(MarkRunning(lv[w].t))
    /\ IF repo # "none"
         THEN /\ Goto(w, "pt_log")
              /\ lv' = [lv EXCEPT ![w].t = MarkRunning(@)]
              /\ invocations' = invocations
         ELSE Dispatch(w, MarkRunning(lv[w].t))
    /\ UNCHANGED << now, report, head, tail, item, dlqTail, dlqItem, dlqRec, flag,
                    created, assigned, claimed, returned, pendingCancelled,
                    cancelTried, dlqRetried, retriedSince, enqueueErr,
                    budgetVars, hist, logVars >>

\* Variant of ProcessTaskLog: the running row carries the attempt number of
\* the previous attempt.
ProcessTaskLogStaleAttempt(w) ==
    LogExecution(execLog, LogRow(lv[w].t.id, lv[w].t.retry_count, RunningStatus, w))

\* LogExecution(id, RetryCount+1, running, w.id) after the update
ProcessTaskLog(w) ==
    LogExecution(execLog, LogRow(lv[w].t.id, lv[w].t.retry_count + 1, RunningStatus, w))

ProcessTaskLogRunning(w) ==
    /\ pc[w] = "pt_log"
    /\ execLog' = Logged(ProcessTaskLog(w))
    /\ Dispatch(w, lv[w].t)
    /\ UNCHANGED << now, report, cacheVars, created, assigned, claimed, returned,
                    pendingCancelled, cancelTried, dlqRetried, retriedSince, enqueueErr,
                    budgetVars, hist, completeCalls, repoCalls >>

\* ctx is context.WithTimeout(context.Background(), 5 min) and its cancel
\* function is only deferred: when the handler returns err, ctx.Err() is nil,
\* or context.DeadlineExceeded for a handler that ran out the deadline, never
\* context.Canceled.
CtxErr(err) == IF err = DeadlineExceeded THEN "deadline_exceeded" ELSE "nil"

\* The handler returns: the cancelled branch (ctx.Err() == context.Canceled),
\* otherwise CompletedAt is set and the error decides between
\* handleTaskFailure and handleTaskSuccess.
HandlerReturn(w, err) ==
    LET t0 == lv[w].t
        t1 == [t0 EXCEPT !.completed_at = TRUE]
    IN
    /\ pc[w] = "handler"
    /\ err \in Handlers[t0.type]
    /\ IF CtxErr(err) = "canceled"
         THEN /\ lv' = [lv EXCEPT ![w].t = [t1 EXCEPT !.status = CancelledStatus]]
              /\ Goto(w, ViaStore("hs_save", "hs_update"))
         ELSE IF err # ""
           THEN FailureStart(w, t1, err)
           ELSE /\ lv' = [lv EXCEPT ![w].t = [t1 EXCEPT !.status = CompletedStatus]]
                /\ Goto(w, ViaStore("hs_save", "hs_update"))
    /\ UNCHANGED << now, report, cacheVars, ghostVars, budgetVars, hist, logVars >>

\* handleTaskSuccess (and the cancelled branch), UpdateTask(t): repo.SaveTask(t)
HandleTaskSuccessSave(w) ==
    /\ pc[w] = "hs_save"
    /\ UpdateTaskSave(w, lv[w].t, "hs_update")

\* handleTaskSuccess (and the cancelled branch), UpdateTask(t): Set.  With a
\* store handleTaskSuccess goes on to CompleteTask, the cancelled branch to
\* LogExecution.
HandleTaskSuccess(w) ==
    /\ pc[w] = "hs_update"
    /\ rec' = UpdateTask(lv[w].t)
    /\ Continue(w, ViaStore(IF lv[w].t.status = CompletedStatus
                              THEN "hs_complete" ELSE "hs_log", "idle"))
    /\ UNCHANGED << now, report, head, tail, item, dlqTail, dlqItem, dlqRec, flag,
                    ghostVars, budgetVars, hist, logVars >>

\* handleTaskSuccess: CompleteTask(t, durationMs)
HandleTaskSuccessComplete(w) ==
    /\ pc[w] = "hs_complete"
    /\ hist' = Stored(RepoCompleteTask(hist, lv[w].t.id))
    /\ completeCalls' = [completeCalls EXCEPT ![lv[w].t.id] = @ + 1]
    /\ Goto(w, "hs_log")
    /\ UNCHANGED << now, report, cacheVars, lv, ghostVars, budgetVars, execLog, repoCalls >>

\* LogExecution(id, RetryCount+1, completed or cancelled, w.id)
HandleTaskSuccessLog(w) ==
    /\ pc[w] = "hs_log"
    /\ execLog' = Logged(LogExecution(execLog,
                     LogRow(lv[w].t.id, lv[w].t.retry_count + 1, lv[w].t.status, w)))
    /\ Return(w)
    /\ UNCHANGED << now, report, cacheVars, ghostVars, budgetVars, hist,
                    completeCalls, repoCalls >>

\* handleTaskFailure: LogExecution(id, RetryCount, failed, w.id) with
\* RetryCount already incremented, then the branch.
HandleTaskFailureLog(w) ==
    LET t2 == FailureBranch(lv[w].t, now) IN
    /\ pc[w] = "hf_log"
    /\ execLog' = Logged(LogExecution(execLog,
                     LogRow(lv[w].t.id, lv[w].t.retry_count, FailedStatus, w)))
    /\ lv' = [lv EXCEPT ![w].t = t2]
    /\ Goto(w, FailurePc(t2))
    /\ UNCHANGED << now, report, cacheVars, ghostVars, budgetVars, hist,
                    completeCalls, repoCalls >>

\* handleTaskFailure, retries exhausted, UpdateTask(t): repo.SaveTask(t)
HandleTaskFailureSave(w) ==
    /\ pc[w] = "hf_save"
    /\ UpdateTaskSave(w, lv[w].t, "hf_update")

\* MoveToDeadLetter(t, reason) with reason = taskErr.Error(): the task is
\* stamped before the first call (MoveTaskToDLQ with a store, Incr without).
MoveToDeadLetterStamp(t, reason) ==
    [t EXCEPT !.failure_reason = reason, !.moved_to_dlq_at = TRUE,
              !.status = DeadLetterStatus]

\* handleTaskFailure, retries exhausted: UpdateTask(t) with status failed,
\* then MoveToDeadLetter
HandleTaskFailureUpdate(w) ==
    /\ pc[w] = "hf_update"
    /\ rec' = UpdateTask(lv[w].t)
    /\ Goto(w, ViaStore("dlq_move", "dlq_incr"))
    /\ UNCHANGED << now, report, head, tail, item, dlqTail, dlqItem, dlqRec, flag, lv,
                    ghostVars, budgetVars, hist, logVars >>

\* Variant of DeadLetterCalls: the dead-letter branch records the failure in
\* the store as the retry branch does.
DeadLetterCallsWithFail(c, id) ==
    Bump(Bump(c, << "FailTask", id >>), << "MoveTaskToDLQ", id >>)

\* handleTaskFailure, retries exhausted: the only store call besides
\* UpdateTask's SaveTask is MoveToDeadLetter's MoveTaskToDLQ(id, reason).
DeadLetterCalls(c, id) == Bump(c, << "MoveTaskToDLQ", id >>)

\* repo.MoveTaskToDLQ is called before the cache commands.
MoveToDeadLetterStore(w) ==
    /\ pc[w] = "dlq_move"
    /\ hist' = Stored(MoveTaskToDLQ(hist, lv[w].t.id))
    /\ repoCalls' = DeadLetterCalls(repoCalls, lv[w].t.id)
    /\ lv' = [lv EXCEPT ![w].t = MoveToDeadLetterStamp(@, @.error)]
    /\ Goto(w, "dlq_incr")
    /\ UNCHANGED << now, report, cacheVars, ghostVars, budgetVars, execVars >>

\* Incr("dlq:tail")
MoveToDeadLetterIncr(w) ==
    /\ pc[w] = "dlq_incr"
    /\ dlqTail' = dlqTail + 1
    /\ lv' = [lv EXCEPT ![w].seq = dlqTail + 1,
                         ![w].t = MoveToDeadLetterStamp(@, @.error)]
    /\ Goto(w, "dlq_item")
    /\ UNCHANGED << now, report, head, tail, item, rec, dlqItem, dlqRec, flag,
                    ghostVars, budgetVars, hist, logVars >>

\* Set(dlq:item:{seq}, id)
MoveToDeadLetterSetItem(w) ==
    /\ pc[w] = "dlq_item"
    /\ dlqItem' = Put(dlqItem, lv[w].seq, lv[w].t.id)
    /\ Goto(w, "dlq_task")
    /\ UNCHANGED << now, report, head, tail, item, rec, dlqTail, dlqRec, flag, lv,
                    ghostVars, budgetVars, hist, logVars >>

\* Set("dlq:task:"+id, json)
MoveToDeadLetterSetTask(w) ==
    /\ pc[w] = "dlq_task"
    /\ dlqRec' = Put(dlqRec, lv[w].t.id, ToJSON(lv[w].t))
    /\ retriedSince' = retriedSince \ { lv[w].t.id }
    /\ Return(w)
    /\ UNCHANGED << now, report, head, tail, item, rec, dlqTail, dlqItem, flag,
                    created, invocations, assigned, claimed, returned,
                    pendingCancelled, cancelTried, dlqRetried, enqueueErr, budgetVars, hist, logVars >>

\* ------------------------------------------------------- dead-letter retry
RetryReset(t, at) ==
    [t EXCEPT !.retry_count = 0, !.failure_reason = "", !.moved_to_dlq_at = FALSE,
              !.scheduled_at = at, !.status = PendingStatus]

\* RetryDeadLetterTask: Get("dlq:task:"+id) (an absent key returns the error
\* and changes nothing), reset, Enqueue, then Del("dlq:task:"+id).
RetryDeadLetterGet(c, id) ==
    /\ MayStart(c)
    /\ budget.retries > 0
    /\ id \in DOMAIN dlqRec
    /\ budget' = [budget EXCEPT !.retries = @ - 1]
    /\ dlqRetried' = dlqRetried \cup {id}
    /\ retriedSince' = retriedSince \cup {id}
    /\ lv' = [lv EXCEPT ![c] =
                [NoLocals EXCEPT !.op = "retry_dlq", !.tid = id,
                                 !.t = RetryReset(TaskFromJSON(dlqRec[id]), now)]]
    /\ Goto(c, EnqueuePc)
    /\ UNCHANGED << now, report, cacheVars, created, invocations, assigned, claimed,
                    returned, pendingCancelled, cancelTried, enqueueErr, repo, hist, logVars, loopVars >>

\* RetryDeadLetterTask for an id without a dead-letter record: Get returns
\* redis.Nil, the call returns it and has written nothing.
RetryDeadLetterNotFound(c, id) ==
    /\ MayStart(c)
    /\ budget.retries > 0 /\ budget.faults > 0
    /\ id \notin DOMAIN dlqRec
    /\ budget' = [budget EXCEPT !.retries = @ - 1, !.faults = @ - 1]
    /\ UNCHANGED << now, report, cacheVars, pc, lv, ghostVars, repo, hist, logVars, loopVars >>

RetryDeadLetterDel(c) ==
    /\ pc[c] = "rd_del"
    /\ dlqRec' = Del(dlqRec, lv[c].tid)
    /\ Return(c)
    /\ UNCHANGED << now, report, head, tail, item, rec, dlqTail, dlqItem, flag,
                    ghostVars, budgetVars, hist, logVars >>

\* PurgeDeadLetterTask: Del("dlq:task:"+id), one cache command whose result
\* does not depend on the key being there.
PurgeTombstone(id) == Put(dlqRec, id, NoTask)

PurgeDeadLetterTask(id) == Del(dlqRec, id)

PurgeDeadLetter(c, id) ==
    /\ MayStart(c)
    /\ budget.purges > 0
    /\ budget' = [budget EXCEPT !.purges = @ - 1]
    /\ dlqRec' = PurgeDeadLetterTask(id)
    /\ UNCHANGED << now, report, head, tail, item, rec, dlqTail, dlqItem, flag, pc, lv,
                    ghostVars, repo, hist, logVars, loopVars >>

\* ------------------------------------------------------------- worker stop
\* Variant of AtSelect: the stop signal is taken at any point of an attempt.
AtSelectAnywhere(w) == TRUE

\* Start's loop is at its select between attempts: processNextTask is called
\* from the loop and returns before the next select.
AtSelect(w) == pc[w] = "idle"

\* Stop(): w.stop <- true on the unbuffered channel; the call waits until the
\* loop receives the value.
StopCall(w) ==
    /\ budget.stops > 0
    /\ w \notin stop \cup stopped
    /\ budget' = [budget EXCEPT !.stops = @ - 1]
    /\ stop' = stop \cup {w}
    /\ stopBusy' = IF pc[w] \in HoldingPcs THEN stopBusy \cup {w} ELSE stopBusy
    /\ UNCHANGED << now, report, cacheVars, pc, lv, ghostVars, repo, hist, logVars, stopped, dqErr >>

\* Variant of StopSignalled: the loop ends without a value on the channel.
StopSignalledAlways(w) == TRUE

\* A value waits on w.stop.
StopSignalled(w) == w \in stop

\* case <-w.stop: return.  While a value waits on the channel and the ticker
\* has fired, select takes either case.
StopReceive(w) ==
    /\ StopSignalled(w)
    /\ AtSelect(w)
    /\ stop' = stop \ {w}
    /\ stopped' = stopped \cup {w}
    /\ UNCHANGED << now, report, cacheVars, pc, lv, ghostVars, budget, repo, hist, logVars, stopBusy, dqErr >>

\* ----------------------------------------------------------- report handler
\* GenerateReportHandler(ctx, t), called on its own with a context that its
\* caller may cancel (or whose deadline may pass) at any moment.
ReportTypes == { "task_summary", "worker_performance", "failure_analysis",
                 "hourly_breakdown", "retry_analysis" }

\* The start_time and end_time strings a payload may carry: missing, a
\* timestamp in the RFC3339 layout, something else.
RFC3339Times == { "2024-01-01T00:00:00Z" }
TimeStrings == { "", "invalid" } \cup RFC3339Times

\* Payloads of the calls explored: schedule_in in seconds, report_type
\* (missing, known, unknown), format (missing, csv, json, unsupported),
\* start_time and end_time, and what the history database answers (no row,
\* one row, an error).
ReportPayloads ==
    [ schedule_in : 0 .. MaxScheduleIn,
      report_type : { "", "task_summary", "retry_analysis", "bogus" },
      format : { "", "csv", "json", "xml" },
      start_time : TimeStrings,
      end_time : TimeStrings,
      db : { "empty", "row", "down" } ]

\* parseTimeRange: a start_time or end_time that is given and does not parse
\* as RFC3339 is an error; a missing one defaults (24 hours ago, now).
ParseTimeRangeErr(r) ==
    IF r.start_time # "" /\ r.start_time \notin RFC3339Times
      THEN "invalid start_time format"
    ELSE IF r.end_time # "" /\ r.end_time \notin RFC3339Times
      THEN "invalid end_time format"
      ELSE ""

\* Variant of ReportCtxErr: the handler takes its context for live.
ReportCtxErrIgnored(r) == "nil"

\* ctx.Err(): nil, context.Canceled or context.DeadlineExceeded
ReportCtxErr(r) == r.ctx

ReportReturn(r, err) == [r EXCEPT !.pc = "returned", !.err = err]

\* parsePayload (report_type is required, format defaults to csv), then the
\* select on time.After(schedule_in) and ctx.Done() when schedule_in > 0.  A
\* context that is done already makes ctx.Done() ready at once.
ReportStart(p) ==
    /\ report.pc = "none"
    /\ LET r == [report EXCEPT !.schedule_in = p.schedule_in,
                               !.report_type = p.report_type,
                               !.format = IF p.format = "" THEN "csv" ELSE p.format,
                               !.start_time = p.start_time,
                               !.end_time = p.end_time,
                               !.db = p.db]
       IN report' =
            IF p.report_type = ""
              THEN ReportReturn(r, "invalid payload")
            ELSE IF p.schedule_in > 0
              THEN [r EXCEPT !.pc = "wait", !.left = p.schedule_in,
                             !.woke = IF r.ctx # "nil" THEN "ctx" ELSE ""]
              ELSE [r EXCEPT !.pc = "generate"]
    /\ UNCHANGED queueVars

\* The caller cancels the context, or its deadline passes.  A handler blocked
\* in the select is woken by the first case that becomes ready.
ReportCtxDone(kind) ==
    /\ report.ctx = "nil"
    /\ report.pc # "returned"
    /\ report' = [report EXCEPT !.ctx = kind, !.doneAt = report.pc,
                                !.woke = IF report.pc = "wait" /\ @ = "" THEN "ctx" ELSE @]
    /\ UNCHANGED queueVars

\* One second of the delay passes; after the last one the timer fires.
ReportTimer ==
    /\ report.pc = "wait"
    /\ report.left > 0
    /\ report' = [report EXCEPT !.left = @ - 1,
                                !.woke = IF report.left = 1 /\ @ = "" THEN "timer" ELSE @]
    /\ UNCHANGED queueVars

\* The select returns: case <-ctx.Done(): return ctx.Err(); after the delay
\* the handler goes on.
ReportWake ==
    /\ report.pc = "wait"
    /\ report.woke # ""
    /\ report' = IF report.woke = "ctx"
                   THEN ReportReturn(report, ReportCtxErr(report))
                   ELSE [report EXCEPT !.pc = "generate"]
    /\ UNCHANGED queueVars

\* parseTimeRange, then the dispatch on report_type and the query
\* (QueryContext(ctx, ...)): a done context and a failing database make the
\* query fail.
ReportGenerate ==
    /\ report.pc = "generate"
    /\ report' =
         IF ParseTimeRangeErr(report) # ""
           THEN ReportReturn(report, "invalid time range")
         ELSE IF report.report_type \notin ReportTypes
           THEN ReportReturn(report, "unsupported report type")
         ELSE IF report.ctx # "nil" \/ report.db = "down"
           THEN ReportReturn(report, "failed to generate report")
           ELSE [report EXCEPT !.pc = "check"]
    /\ UNCHANGED queueVars

\* if ctx.Err() != nil { return ctx.Err() } before the report is saved
ReportCheck ==
    /\ report.pc = "check"
    /\ report' = IF ReportCtxErr(report) # "nil"
                   THEN ReportReturn(report, ReportCtxErr(report))
                   ELSE [report EXCEPT !.pc = "save"]
    /\ UNCHANGED queueVars

\* saveReport: an unsupported format writes nothing; saveAsCSV writes the
\* file; saveAsJSON creates the file and refuses a table without a data row.
ReportSave ==
    /\ report.pc = "save"
    /\ report' =
         IF report.format \notin { "csv", "json" }
           THEN ReportReturn(report, "failed to save report")
         ELSE IF report.format = "json" /\ report.db = "empty"
           THEN [ReportReturn(report, "failed to save report") EXCEPT !.file = TRUE]
           ELSE [ReportReturn(report, "") EXCEPT !.file = TRUE]
    /\ UNCHANGED queueVars

ReportNext ==
    \/ \E p \in ReportPayloads : ReportStart(p)
    \/ \E kind \in { "canceled", "deadline_exceeded" } : ReportCtxDone(kind)
    \/ ReportTimer
    \/ ReportWake
    \/ ReportGenerate
    \/ ReportCheck
    \/ ReportSave

\* The handler called on its own: the queue is idle and stays as it is.
ReportInit == Init /\ budget.stops = 1

ReportSpec == ReportInit /\ [][ReportNext]_vars

\* ------------------------------------------------------------ specification
Next ==
    \/ Tick
    \/ \E c \in Clients, id \in TaskIDs, tpl \in Templates : Submit(c, id, tpl)
    \/ \E p \in Procs : EnqueueSaveTask(p)
    \/ \E p \in Procs : EnqueueIncrTail(p)
    \/ \E p \in Procs : EnqueueSetItem(p)
    \/ \E p \in Procs : EnqueueSetTask(p)
    \/ \E w \in Workers : RetryIncrementRetryCount(w)
    \/ \E w \in Workers : RetryFailTask(w)
    \/ \E w \in Workers : DequeueGetHead(w)
    \/ \E w \in Workers : DequeueGetTail(w)
    \/ \E w \in Workers : DequeueIncrHead(w)
    \/ \E w \in Workers : DequeueGetItem(w)
    \/ \E w \in Workers : DequeueGetTask(w)
    \/ \E w \in Workers : DequeueUpdateStatus(w)
    \/ \E w \in Workers : DequeueDeleteItem(w)
    \/ \E w \in Workers : DequeueDelete(w)
    \/ \E w \in Workers : ProcessTaskCheckCancelled(w)
    \/ \E w \in Workers : ProcessTaskSaveRunning(w)
    \/ \E w \in Workers : ProcessTaskMarkRunning(w)
    \/ \E w \in Workers : ProcessTaskLogRunning(w)
    \/ \E w \in Workers, err \in HandlerErrors : HandlerReturn(w, err)
    \/ \E w \in Workers : HandleTaskSuccessSave(w)
    \/ \E w \in Workers : HandleTaskSuccess(w)
    \/ \E w \in Workers : HandleTaskSuccessComplete(w)
    \/ \E w \in Workers : HandleTaskSuccessLog(w)
    \/ \E w \in Workers : HandleTaskFailureLog(w)
    \/ \E w \in Workers : HandleTaskFailureSave(w)
    \/ \E w \in Workers : HandleTaskFailureUpdate(w)
    \/ \E w \in Workers : MoveToDeadLetterStore(w)
    \/ \E w \in Workers : MoveToDeadLetterIncr(w)
    \/ \E w \in Workers : MoveToDeadLetterSetItem(w)
    \/ \E w \in Workers : MoveToDeadLetterSetTask(w)
    \/ \E c \in Clients, id \in TaskIDs : CancelGetTask(c, id)
    \/ \E c \in Clients, id \in TaskIDs : CancelRefused(c, id)
    \/ \E c \in Clients : CancelUpdateStatus(c)
    \/ \E c \in Clients : CancelUpdateTask(c)
    \/ \E c \in Clients : CancelSetFlag(c)
    \/ \E c \in Clients, id \in TaskIDs : RetryDeadLetterGet(c, id)
    \/ \E c \in Clients : RetryDeadLetterDel(c)
    \/ \E c \in Clients, id \in TaskIDs : RetryDeadLetterNotFound(c, id)
    \/ \E p \in Procs : EnqueueFails(p)
    \/ \E c \in Clients, id \in TaskIDs : PurgeDeadLetter(c, id)
    \/ \E w \in Workers : StopCall(w)
    \/ \E w \in Workers : StopReceive(w)

Spec == Init /\ [][Next]_vars

\* ------------------------------------------------------------------ claims
\* Task id is waiting in the main queue: an unclaimed slot names it and its
\* record is stored.
Queued(id) == id \in DOMAIN rec /\ \E s \in DOMAIN item : s > head /\ item[s] = id

\* I5: visible to dequeue iff pending, scheduled_at <= now and not cancelled.
Eligible(id) ==
    /\ id \in DOMAIN rec
    /\ rec[id].status = PendingStatus
    /\ rec[id].scheduled_at <= now
    /\ id \notin flag

\* C1: a task handed out by Dequeue has reached its scheduled time
\* (scheduled_at <= now when Dequeue has returned it).
C1_NotDequeuedBeforeScheduledAt ==
    \A w \in Workers : pc[w] = "pt_check" => lv[w].t.scheduled_at <= now

\* C2: when a Dequeue claims the next slot while several pending, eligible
\* tasks wait in the queue, the task of the claimed slot has the highest
\* priority among them.
C2_HighestPriorityFirst ==
    [][ \A w \in Workers :
          (pc[w] = "dq_incr" /\ pc'[w] = "dq_item" /\ (head + 1) \in DOMAIN item
             /\ Eligible(item[head + 1]))
          => \A s \in DOMAIN item :
               (s > head + 1 /\ Eligible(item[s]))
               => rec[item[s]].priority <= rec[item[head + 1]].priority ]_vars

\* C3: every sequence number is handed to exactly one Enqueue call, every
\* slot is claimed by exactly one Dequeue call, and the task of one slot is
\* returned at most once.
C3_SlotsClaimedOnce ==
    /\ \A s \in DOMAIN assigned : assigned[s] = 1
    /\ \A s \in DOMAIN claimed : claimed[s] = 1
    /\ \A s \in DOMAIN returned : returned[s] = 1
    /\ \A p, q \in Procs :
         (p # q /\ pc[p] \in { "enq_item", "enq_task" } /\ pc[q] \in { "enq_item", "enq_task" })
         => lv[p].seq # lv[q].seq
    /\ \A v, w \in Workers :
         (v # w /\ pc[v] \in { "dq_item", "dq_task", "dq_status", "dq_del", "dq_del_task" }
                /\ pc[w] \in { "dq_item", "dq_task", "dq_status", "dq_del", "dq_del_task" })
         => lv[v].seq # lv[w].seq

\* Two workers are inside Dequeue at once, each with a claimed slot, after two
\* Enqueue calls received their sequence numbers.
C3_Witness ==
    /\ pc["w1"] \in { "dq_item", "dq_task", "dq_del", "dq_del_task" }
    /\ pc["w2"] \in { "dq_item", "dq_task", "dq_del", "dq_del_task" }
    /\ Cardinality(DOMAIN assigned) >= 2
    /\ Cardinality(DOMAIN claimed) >= 2

\* C4: once cancel_task has completed for a task that no worker holds (it is
\* still pending, no Dequeue has returned it), no worker gets past the
\* cancellation check with it: the handler is not invoked for it.
C4_CancelledPendingNeverInvoked ==
    \A id \in pendingCancelled : \A w \in Workers :
        ~(Holds(w, id) /\ pc[w] # "pt_check")

\* C5: once the cancellation flag of a task is set, its record does not have
\* status running.
C5_NoRunningAfterFlag ==
    \A id \in flag : id \in DOMAIN rec => rec[id].status # RunningStatus

\* C6: every copy of a task (main record, DLQ record, the value a worker
\* holds) has retry_count <= max_retries.
C6_RetryCountBounded ==
    /\ \A id \in DOMAIN rec : rec[id].retry_count <= rec[id].max_retries
    /\ \A id \in DOMAIN dlqRec : dlqRec[id].retry_count <= dlqRec[id].max_retries
    /\ \A w \in Workers : lv[w].t.retry_count <= lv[w].t.max_retries

\* C7: a task becomes dead_letter only in the step after the worker marked it
\* failed with retry_count = max_retries.
C7_DeadLetterOnlyViaFailed ==
    [][ \A w \in Workers :
          (lv'[w].t.status = DeadLetterStatus /\ lv[w].t.status # DeadLetterStatus)
          => (lv[w].t.status = FailedStatus
                /\ lv[w].t.retry_count = lv[w].t.max_retries) ]_vars

\* C8: after a failed attempt the worker is on the re-enqueue path exactly
\* when retry_count < max_retries (task pending), and on the dead-letter path
\* exactly when ShouldMoveToDeadLetter holds of the failed task.
C8_FailureBranch ==
    \A w \in Workers :
        /\ pc[w] \in { "enq_save", "enq_incr", "enq_item", "enq_task", "rp_incr", "rp_fail" }
             => /\ lv[w].t.status = PendingStatus
                /\ lv[w].t.retry_count >= 1
                /\ lv[w].t.retry_count < lv[w].t.max_retries
                /\ ~ShouldMoveToDeadLetter([lv[w].t EXCEPT !.status = FailedStatus])
        /\ (pc[w] \in { "hf_save", "hf_update", "dlq_move" }
              \/ (pc[w] = "dlq_incr" /\ repo = "none"))
             => /\ ShouldMoveToDeadLetter(lv[w].t)
                /\ ~(lv[w].t.retry_count < lv[w].t.max_retries)
        /\ (pc[w] \in { "dlq_item", "dlq_task" }
              \/ (pc[w] = "dlq_incr" /\ repo # "none"))
             => /\ lv[w].t.status = DeadLetterStatus
                /\ lv[w].t.retry_count >= lv[w].t.max_retries

\* A task that was re-enqueued after its first and second failure is on the
\* dead-letter path after its third.
C8_Witness ==
    \E w \in Workers :
        /\ pc[w] = "hf_update"
        /\ lv[w].t.retry_count = 3
        /\ lv[w].t.max_retries = 3
        /\ tail = 3

\* No process is in the middle of an operation and a poll finds the queue
\* empty (head >= tail), although the workers are still polling.
Quiescent ==
    /\ \A p \in Procs : pc[p] = "idle"
    /\ head >= tail
    /\ tail < budget.seqs

InDeadLetter(id) ==
    /\ id \in DOMAIN dlqRec
    /\ dlqRec[id].status = DeadLetterStatus
    /\ dlqRec[id].failure_reason \in Handlers[created[id].type]

\* C9: a task whose handler always fails, enqueued without error, never
\* cancelled and never retried from the DLQ, has come to rest in the dead-letter queue (status
\* dead_letter, failure_reason = the handler's error) after exactly
\* max_retries handler invocations once the system is at rest.
C9_FailingTaskRestsInDeadLetter ==
    Quiescent =>
      \A id \in DOMAIN created :
        (created[id].type = "boom" /\ id \notin enqueueErr
           /\ id \notin cancelTried /\ id \notin dlqRetried)
        => (InDeadLetter(id) /\ invocations[id] = dlqRec[id].max_retries)

\* C10: the next attempt of a task that failed before (retry_count >= 1,
\* re-enqueued as pending) does not start before its scheduled_at.
C10_NextAttemptAfterBackoff ==
    \A w \in Workers :
        (pc[w] \in { "pt_check", "pt_update" } /\ lv[w].t.retry_count >= 1
           /\ lv[w].t.status = PendingStatus)
        => lv[w].t.scheduled_at <= now

\* Slot s is claimed by a Dequeue call that has not returned yet.
InFlight(s) ==
    \E w \in Workers :
        pc[w] \in { "dq_item", "dq_task", "dq_status", "dq_del", "dq_del_task" } /\ lv[w].seq = s

\* C11: when Dequeue returns the task of a slot, no other eligible task of
\* the same priority waits in a slot with a smaller sequence number (FIFO
\* within a priority band); a slot another Dequeue call is busy with does not
\* count as waiting.
C11_FifoWithinPriority ==
    [][ \A w \in Workers :
          (pc[w] = "dq_del_task" /\ pc'[w] = "pt_check" /\ Eligible(lv[w].tid))
          => \A s \in DOMAIN item :
               ~( /\ s < lv[w].seq
                  /\ ~InFlight(s)
                  /\ item[s] # lv[w].tid
                  /\ Eligible(item[s])
                  /\ rec[item[s]].priority = rec[lv[w].tid].priority ) ]_vars

\* Task id rests in the dead-letter queue: the worker moved it there and no
\* retry_dead_letter was called for it since.
DeadLettered(id) ==
    /\ id \in DOMAIN dlqRec
    /\ dlqRec[id].status = DeadLetterStatus
    /\ id \notin retriedSince

\* C12: cancel_task is refused, and writes nothing, for a task whose status is
\* completed, cancelled or dead_letter: a cancel_task call gets past its
\* status check only for a task whose record is not terminal and that the
\* worker has not moved to the dead-letter queue.
C12_TerminalCancelRefused ==
    [][ \A c \in Clients :
          (pc[c] = "idle" /\ pc'[c] \in { "ct_status", "ct_update" })
          => /\ rec[lv'[c].tid].status \notin TerminalStatuses
             /\ ~DeadLettered(lv'[c].tid) ]_vars

\* get_task(id): the task stored under task:{id}, NoTask when there is none.
GetTask(id) == IF id \in DOMAIN rec THEN TaskFromJSON(rec[id]) ELSE NoTask

\* C13: when cancel_task(id) returns success, get_task(id) shows the task
\* with status cancelled and completed_at set and is_cancelled(id) answers
\* true; once is_cancelled(id) has answered true it answers true (without an
\* error) after every later step; and is_cancelled(id) never answers true for
\* a task for which cancel_task was not called.
C13_CancelSetsStickyFlag ==
    [][ \A id \in TaskIDs :
          /\ (\E c \in Clients : pc[c] = "ct_flag" /\ pc'[c] = "idle" /\ lv[c].tid = id)
               => /\ GetTask(id)'.status = CancelledStatus
                  /\ GetTask(id)'.completed_at
                  /\ IsCancelled(id)' = [cancelled |-> TRUE, err |-> NoError]
          /\ IsCancelled(id) = [cancelled |-> TRUE, err |-> NoError]
               => IsCancelled(id)' = [cancelled |-> TRUE, err |-> NoError]
          /\ id \notin cancelTried => ~IsCancelled(id).cancelled ]_vars

\* C14: when a handler returns with its context's deadline exceeded, the
\* worker takes the cancellation branch: the task becomes cancelled, its
\* retry_count is not incremented, and it is neither re-enqueued nor moved to
\* the dead-letter queue.
C14_DeadlineTakesCancelBranch ==
    [][ \A w \in Workers :
          (pc[w] = "handler" /\ pc'[w] # "handler"
             /\ \A err \in Handlers[lv[w].t.type] : CtxErr(err) = "deadline_exceeded")
          => /\ lv'[w].t.status = CancelledStatus
             /\ lv'[w].t.retry_count = lv[w].t.retry_count
             /\ pc'[w] \in { "hs_save", "hs_update" } ]_vars

\* C15: when cancel_task has completed for a task while its handler is
\* running, the attempt ends cancelled: the worker leaves the handler with
\* the task's status cancelled, not completed, failed or pending.
C15_CancelInterruptsRunning ==
    [][ \A w \in Workers :
          (pc[w] = "handler" /\ pc'[w] # "handler" /\ lv[w].t.id \in flag)
          => lv'[w].t.status = CancelledStatus ]_vars

\* C16: when retry_dead_letter(id) returns, and no Dequeue has yet returned
\* the task of the slot it enqueued, get_task(id) finds the task pending with
\* retry_count 0, no failure_reason and no moved_to_dlq_at, and the
\* dead-letter queue has no record of id.
C16_RetryRestoresPending ==
    [][ \A c \in Clients, id \in TaskIDs :
          (pc[c] = "rd_del" /\ pc'[c] = "idle" /\ lv[c].tid = id
             /\ Count(returned', lv[c].seq) = 0 /\ id \notin cancelTried)
          => /\ GetTask(id)'.id = id
             /\ GetTask(id)'.status = PendingStatus
             /\ GetTask(id)'.retry_count = 0
             /\ GetTask(id)'.failure_reason = ""
             /\ ~GetTask(id)'.moved_to_dlq_at
             /\ id \notin DOMAIN dlqRec' ]_vars

\* C17: a task that rests in the dead-letter queue (no retry_dead_letter
\* since it entered) is not returned by Dequeue and not handed to a handler.
C17_DeadLetterNotDispatched ==
    [][ \A w \in Workers :
          /\ (pc[w] = "dq_del_task" /\ pc'[w] = "pt_check") => ~DeadLettered(lv[w].tid)
          /\ (pc[w] # "handler" /\ pc'[w] = "handler") => ~DeadLettered(lv[w].t.id) ]_vars

\* C18: purge_dead_letter is idempotent: a purge of an id that has no
\* dead-letter record completes and leaves the cache as it was, and purging
\* the same id again after a purge changes nothing more.
C18_PurgeIdempotent ==
    [][ budget'.purges < budget.purges
          => \E id \in TaskIDs :
               /\ dlqRec' = Del(dlqRec, id)
               /\ id \notin DOMAIN dlqRec => UNCHANGED cacheVars
               /\ PurgeDeadLetterTask(id)' = dlqRec'
               /\ UNCHANGED << head, tail, item, rec, dlqTail, dlqItem, flag >> ]_vars

\* Both purges were spent after one dead-lettering: one of them removed the
\* record and the other met an id without a record.
C18_Witness ==
    /\ budget.purges = 0 /\ budget.submits = 0
    /\ dlqTail = 1 /\ DOMAIN dlqRec = {} /\ dlqRetried = {}
    /\ \A p \in Procs : pc[p] = "idle"

\* The positions at which a process calls the history store.
StorePcs == { "enq_save", "dq_status", "ct_status", "pt_save", "pt_log",
              "hs_save", "hs_complete", "hs_log", "hf_log", "hf_save",
              "dlq_move", "rp_incr", "rp_fail" }

\* The task process p hands on after its store call, with a store of kind r.
TaskAfterStoreCall(p, r) ==
    CASE pc[p] = "enq_save" -> EnqueueStatus(lv[p].t, r)
      [] pc[p] = "dq_status" -> DequeueStatus(lv[p].t, r)
      [] pc[p] = "pt_save" -> MarkRunning(lv[p].t)
      [] pc[p] = "hf_log" -> FailureBranch(lv[p].t, now)
      [] pc[p] = "dlq_move" -> MoveToDeadLetterStamp(lv[p].t, lv[p].t.error)
      [] pc[p] \in { "hs_log", "rp_fail" } -> NoTask
      [] pc[p] = "pt_log" /\ lv[p].t.type \notin DOMAIN Handlers
           -> FailureCount(lv[p].t, NoHandlerError(lv[p].t.type))
      [] OTHER -> lv[p].t

\* C19: a failing history-store call is invisible in the cache: every call
\* to the store completes (the caller goes on), leaves the counters, item
\* keys, task records and DLQ records as they are, and the task handed on is
\* the one handed on with a store whose calls succeed.
C19_StoreFailureInvisible ==
    [][ \A p \in Procs :
          (pc[p] \in StorePcs /\ pc'[p] # pc[p])
          => /\ repo # "none"
             /\ UNCHANGED cacheVars
             /\ pc'[p] \notin StorePcs \/ pc'[p] # pc[p]
             /\ lv'[p].t = TaskAfterStoreCall(p, "up")
             /\ lv'[p].t = TaskAfterStoreCall(p, "down") ]_vars

\* A task went through Enqueue, Dequeue and the worker to completion while
\* every call to the history store failed.
C19_Witness ==
    /\ repo = "down"
    /\ hist = << >>
    /\ \E id \in DOMAIN rec : rec[id].status = CompletedStatus

\* C20: Dequeue returns the task with the status read from its cache record,
\* and its steps are the ones a queue built without a history store takes:
\* after the read of the record the two deletes follow, and the task keeps
\* the status that was read.
C20_DequeueKeepsCacheStatus ==
    [][ \A w \in Workers :
          /\ (pc[w] = "dq_task" /\ pc'[w] \notin { "dq_task", "idle" })
               => pc'[w] = "dq_del"
          /\ (pc[w] \in { "dq_status", "dq_del", "dq_del_task" } /\ pc'[w] # pc[w])
               => lv'[w].t.status = lv[w].t.status ]_vars

\* C21: a task whose type has no registered handler is a failed attempt with
\* the error "no handler for task type: <type>" on the ordinary retry path:
\* no handler is invoked, retry_count grows by one, the task is re-enqueued
\* as pending while retry_count < max_retries and is on the dead-letter path
\* only with retry_count >= max_retries.
C21_NoHandlerFollowsRetryPath ==
    [][ \A w \in Workers :
          lv[w].t.type \notin DOMAIN Handlers =>
            /\ ((pc[w] = "pt_update" /\ pc'[w] \notin { "pt_update", "pt_log" })
                  \/ (pc[w] = "pt_log" /\ pc'[w] # "pt_log"))
                 => /\ lv'[w].t.error = "no handler for task type: " \o lv[w].t.type
                    /\ lv'[w].t.retry_count = lv[w].t.retry_count + 1
                    /\ invocations' = invocations
                    /\ pc'[w] # "handler"
            /\ (pc[w] \in { "pt_update", "hf_log" }
                   /\ pc'[w] \notin { "pt_update", "pt_log", "hf_log" })
                 => IF lv'[w].t.retry_count < lv'[w].t.max_retries
                      THEN pc'[w] = EnqueuePc /\ lv'[w].t.status = PendingStatus
                      ELSE /\ pc'[w] \in { "hf_save", "hf_update" }
                           /\ lv'[w].t.status = FailedStatus ]_vars

\* A task without a handler was re-enqueued as pending after its first and
\* second attempt and is on the dead-letter path after its third.
C21_Witness ==
    \E w \in Workers :
        /\ pc[w] = "dlq_task"
        /\ lv[w].t.type \notin DOMAIN Handlers
        /\ lv[w].t.retry_count = 3
        /\ lv[w].t.max_retries = 3
        /\ tail = 3
        /\ invocations[lv[w].t.id] = 0

\* C22: a worker whose loop has received the stop signal has terminated: it
\* is between attempts when it exits (an attempt in progress when Stop was
\* called has run to its end), it starts no Dequeue afterwards and it stays
\* stopped.
C22_StopEndsLoopBetweenAttempts ==
    [][ \A w \in Workers :
          /\ w \in stopped' => (pc'[w] = "idle" /\ lv'[w] = NoLocals)
          /\ w \in stopped => (w \in stopped' /\ pc'[w] = pc[w]) ]_vars

\* Stop was called for a worker while it held a task; the attempt ran to its
\* end (the record says completed) and the worker has exited.
C22_Witness ==
    \E w \in stopped \cap stopBusy :
        /\ pc[w] = "idle"
        /\ \E id \in DOMAIN rec : rec[id].status = CompletedStatus

\* C23: no outcome of an attempt stops the worker: the loop ends only by
\* receiving the stop signal between attempts, and every attempt (handler
\* error, missing handler, failing history store) ends with the worker back
\* in its polling loop, where it takes the tasks enqueued later.
C23_FailureKeepsWorkerPolling ==
    [][ \A w \in Workers :
          /\ (w \in stopped' /\ w \notin stopped) => (w \in stop /\ pc[w] = "idle")
          /\ (pc[w] \in HoldingPcs /\ pc'[w] \notin HoldingPcs)
               => (pc'[w] = "idle" /\ w \notin stopped') ]_vars

\* A worker whose first attempt on a task failed (its failed row is in the
\* execution log) runs the handler for the re-enqueued task.
C23_Witness ==
    \E w \in Workers, id \in TaskIDs :
        /\ Count(execLog, LogRow(id, 1, FailedStatus, w)) >= 1
        /\ pc[w] = "handler"
        /\ lv[w].t.id = id
        /\ lv[w].t.retry_count = 1

\* C24: when a handler has returned without error, the worker writes the
\* task's record with status completed and completed_at set, calls
\* CompleteTask on the history store once, and ends the attempt without a
\* re-enqueue or a dead-letter entry; CompleteTask is called at most once for
\* a task, and the record of a task nobody tried to cancel stays completed.
C24_SuccessCompletesOnce ==
    [][ /\ \A w \in Workers, id \in TaskIDs :
             (lv[w].t.id = id /\ lv[w].t.status = CompletedStatus) =>
               /\ (pc[w] = "hs_update" /\ pc'[w] # "hs_update")
                    => /\ TaskFromJSON(rec'[id]).status = CompletedStatus
                       /\ TaskFromJSON(rec'[id]).completed_at
                       /\ pc'[w] = IF repo # "none" THEN "hs_complete" ELSE "idle"
               /\ (pc[w] = "hs_complete" /\ pc'[w] # "hs_complete")
                    => /\ completeCalls'[id] = 1
                       /\ repo = "up" => hist'[id].status = CompletedStatus
                       /\ pc'[w] = "hs_log"
               /\ (pc[w] = "hs_log" /\ pc'[w] # "hs_log") => pc'[w] = "idle"
               /\ (pc[w] \in { "hs_save", "hs_update", "hs_complete", "hs_log" }
                      /\ pc'[w] # pc[w])
                    => /\ tail' = tail /\ item' = item
                       /\ dlqTail' = dlqTail /\ dlqRec' = dlqRec
        /\ \A id \in TaskIDs :
             /\ completeCalls[id] <= 1
             /\ (completeCalls[id] = 1 /\ id \notin cancelTried)
                  => /\ id \in DOMAIN rec
                     /\ TaskFromJSON(rec[id]).status = CompletedStatus
                     /\ id \notin DOMAIN dlqRec
                     /\ \A q \in DOMAIN item : item[q] # id ]_vars

\* Number of rows of the bag l that lie in the set D of its rows.
RECURSIVE BagSum(_, _)
BagSum(l, D) ==
    IF D = {} THEN 0
    ELSE LET r == CHOOSE x \in D : TRUE IN l[r] + BagSum(l, D \ {r})

\* Execution-log rows of task id with one of the given statuses.
RowsOf(id, statuses) ==
    BagSum(execLog, { r \in DOMAIN execLog : r.task_id = id /\ r.status \in statuses })

OutcomeStatuses == { CompletedStatus, FailedStatus, CancelledStatus }

\* The attempt of worker w has its outcome in this step: no handler, the
\* handler returned an error, or the success (or cancelled) bookkeeping.
OutcomeStep(w) ==
    \/ pc[w] = "hf_log" /\ pc'[w] # "hf_log"
    \/ pc[w] = "hs_log" /\ pc'[w] # "hs_log"

\* The number of the attempt worker w is making: RetryCount before the
\* attempt + 1 (handleTaskFailure has incremented RetryCount before its row).
AttemptNumber(w) ==
    IF pc[w] = "hf_log" THEN lv[w].t.retry_count ELSE lv[w].t.retry_count + 1

\* The attempt of worker w has its running row and not yet its outcome row.
AwaitsOutcome(w) ==
    \/ pc[w] \in { "handler", "hs_save", "hs_update", "hs_complete", "hs_log", "hf_log" }

\* C25: with a history store that accepts its calls, every attempt appends
\* exactly one running row before the handler runs and exactly one outcome
\* row after it, both with attempt_number = retry_count before the attempt
\* + 1 and the worker's id, and nothing else writes the log; so a task has
\* as many running rows as outcome rows once no handler is running for it
\* (N failed attempts: N running rows and N failed rows).
C25_OneRunningOneOutcomeRow ==
    [][ repo = "up" =>
          /\ \A w \in Workers, id \in TaskIDs :
               LET n == AttemptNumber(w) IN
               /\ (pc[w] = "pt_log" /\ pc'[w] # "pt_log" /\ lv[w].t.id = id)
                    => /\ RowsOf(id, { RunningStatus })' = RowsOf(id, { RunningStatus }) + 1
                       /\ Count(execLog', LogRow(id, n, RunningStatus, w))
                            = Count(execLog, LogRow(id, n, RunningStatus, w)) + 1
               /\ (OutcomeStep(w) /\ lv[w].t.id = id)
                    => /\ RowsOf(id, OutcomeStatuses)' = RowsOf(id, OutcomeStatuses) + 1
                       /\ \E st \in OutcomeStatuses :
                            Count(execLog', LogRow(id, n, st, w))
                              = Count(execLog, LogRow(id, n, st, w)) + 1
          /\ (\A w \in Workers :
                 ~OutcomeStep(w) /\ ~(pc[w] = "pt_log" /\ pc'[w] # "pt_log"))
               => execLog' = execLog
          /\ \A id \in TaskIDs :
               RowsOf(id, { RunningStatus })
                 = RowsOf(id, OutcomeStatuses)
                     + Cardinality({ w \in Workers :
                           AwaitsOutcome(w) /\ lv[w].t.id = id }) ]_vars

\* A task with max_retries 3 is in the dead-letter queue after three failed
\* attempts that were logged.
C25_Witness ==
    \E id \in DOMAIN dlqRec :
        /\ repo = "up"
        /\ dlqRec[id].max_retries = 3
        /\ id \notin dlqRetried
        /\ dlqRec[id].retry_count = 3
        /\ RowsOf(id, { FailedStatus }) = 3
        /\ RowsOf(id, { RunningStatus }) = 3

\* C26: terminal statuses are absorbing: a record whose status is completed,
\* cancelled or dead_letter keeps that status in every step that leaves the
\* record in place, except the write of retry_dead_letter that makes a
\* dead-lettered task pending again.
C26_TerminalAbsorbing ==
    [][ /\ \A id \in DOMAIN rec :
             (rec[id].status \in TerminalStatuses
                /\ ~\E c \in Clients : pc[c] = "enq_task" /\ lv[c].op = "retry_dlq"
                                         /\ lv[c].tid = id /\ pc'[c] # "enq_task")
             => (id \in DOMAIN rec' => rec'[id].status = rec[id].status)
        /\ \A id \in DOMAIN dlqRec :
             (dlqRec[id].status \in TerminalStatuses /\ id \in DOMAIN dlqRec')
             => dlqRec'[id].status = dlqRec[id].status ]_vars

\* C27: no enqueued slot is skipped forever.  Dequeue reads only the slot
\* queue:head + 1 it has just claimed, so a stored item key at or below
\* queue:head that no Dequeue call is working on is never read again: every
\* stored item key lies above queue:head or is in the hands of a Dequeue.
C27_NoSlotLeftBehind ==
    \A s \in DOMAIN item : s > head \/ InFlight(s)

\* C28: queue:head <= queue:tail in every state, and a Dequeue claims only a
\* sequence number that an Enqueue has been given.
C28_HeadNeverPassesTail ==
    /\ head <= tail
    /\ \A s \in DOMAIN claimed : s \in DOMAIN assigned

\* C29: a task id is never held by two workers at once (from the return of
\* its Dequeue to the end of its attempt).
C29_OneHolderPerTask ==
    \A id \in TaskIDs : Cardinality({ w \in Workers : Holds(w, id) }) <= 1

\* C30: failed is a transient status: while no worker holds a task, the
\* record get_task returns for it does not have status failed.
C30_FailedIsTransient ==
    \A id \in DOMAIN rec :
        (\A w \in Workers : ~Holds(w, id)) => GetTask(id).status # FailedStatus

\* Statuses of I2: the statuses that end an attempt or a task.
FinishedStatuses == { CompletedStatus, FailedStatus, CancelledStatus, DeadLetterStatus }

\* C31: every stored task record (task:{id} and dlq:task:{id}) whose status is
\* completed, failed, cancelled or dead_letter has completed_at or
\* moved_to_dlq_at set.
C31_FinishedHasTimestamp ==
    /\ \A id \in DOMAIN rec :
         GetTask(id).status \in FinishedStatuses
         => (GetTask(id).completed_at \/ GetTask(id).moved_to_dlq_at)
    /\ \A id \in DOMAIN dlqRec :
         TaskFromJSON(dlqRec[id]).status \in FinishedStatuses
         => (TaskFromJSON(dlqRec[id]).completed_at \/ TaskFromJSON(dlqRec[id]).moved_to_dlq_at)

\* The producer's Enqueue of task id has returned success.
Submitted(id) ==
    /\ id \in DOMAIN created
    /\ id \notin enqueueErr
    /\ ~\E c \in Clients : pc[c] \in { "enq_save", "enq_incr", "enq_item", "enq_task" }
                             /\ lv[c].op = "submit" /\ lv[c].t.id = id

\* Task id has never entered the dead-letter queue, so no purge_dead_letter
\* has removed it (dlq:item keys are never deleted).
NeverDeadLettered(id) == \A s \in DOMAIN dlqItem : dlqItem[s] # id

\* C32: from the return of its Enqueue until it is purged, get_task(id) finds
\* the task in every state, also between a worker's Dequeue of it and that
\* worker's first status update.
C32_GetTaskAlwaysFinds ==
    \A id \in TaskIDs :
        (Submitted(id) /\ NeverDeadLettered(id)) => GetTask(id).id = id

\* C33: with a history store whose calls succeed, whenever no process is in
\* the middle of an operation, the task_history row of a task has the status
\* and the retry_count of its cache record task:{id} (after a failure that is
\* retried: pending, retry_count = number of failed attempts).  Tasks that
\* entered the dead-letter queue, whose record of reference is dlq:task:{id},
\* are left out.
C33_HistoryMatchesCache ==
    (repo = "up" /\ \A p \in Procs : pc[p] = "idle")
    => \A id \in DOMAIN rec \cap DOMAIN hist :
         NeverDeadLettered(id)
         => /\ hist[id].status = GetTask(id).status
            /\ hist[id].retry_count = GetTask(id).retry_count

\* C34: a Dequeue that has claimed a slot whose queue:item key or whose
\* task:{id} record is missing returns empty without an error, and the slot
\* stays consumed: queue:head is not rolled back.
C34_MissingKeyReturnsEmpty ==
    [][ \A w \in Workers :
          (pc[w] \in { "dq_item", "dq_task" } /\ pc'[w] = "idle")
          => /\ lv'[w].t = NoTask
             /\ dqErr'[w] = NoError
             /\ head' = head
             /\ head' >= lv[w].seq ]_vars

\* C35: Dequeue does not look at scheduled_at.  It claims the slot
\* queue:head + 1, takes the task id stored there and, when the record is
\* stored, returns that task without an error, whether its scheduled_at has
\* been reached or lies in the future (enqueue a task scheduled now, then one
\* scheduled 10 s ahead: the first Dequeue returns the first, the Dequeue
\* right after it returns the second).
C35_FutureTaskNotWithheld ==
    [][ \A w \in Workers :
          /\ (pc[w] = "dq_incr" /\ pc'[w] # "dq_incr") => lv'[w].seq = head + 1
          /\ (pc[w] = "dq_item" /\ pc'[w] = "dq_task") => lv'[w].tid = item[lv[w].seq]
          /\ (pc[w] = "dq_task" /\ pc'[w] # "dq_task" /\ lv[w].tid \in DOMAIN rec)
               => /\ pc'[w] \in { "dq_status", "dq_del" }
                  /\ lv'[w].t = TaskFromJSON(rec[lv[w].tid])
                  /\ dqErr'[w] = NoError
          /\ (pc[w] \in { "dq_status", "dq_del", "dq_del_task" } /\ pc'[w] # pc[w])
               => /\ pc'[w] \in { "dq_del", "dq_del_task", "pt_check" }
                  /\ lv'[w].t.id = lv[w].tid
                  /\ lv'[w].t.scheduled_at = lv[w].t.scheduled_at
                  /\ dqErr'[w] = NoError ]_vars

\* Task a, scheduled now, was enqueued first and returned by the first
\* Dequeue; the next Dequeue has returned task b while its scheduled_at is
\* still 10 s ahead.
C35_Witness ==
    \E w \in Workers :
        /\ pc[w] = "pt_check"
        /\ lv[w].seq = 2 /\ lv[w].t.id = "b"
        /\ lv[w].t.scheduled_at = now + BackoffSeconds
        /\ dqErr[w] = NoError
        /\ created["a"].delay = 0
        /\ Count(returned, 1) = 1 /\ Count(claimed, 1) = 1 /\ Count(claimed, 2) = 1
        /\ tail = 2

\* Number of calls of a store method the failure path has made for task id.
Calls(name, id) == Count(repoCalls, << name, id >>)

\* Worker w makes the store call of its position for task id.
StoreCallStep(w, id, at) ==
    pc[w] = at /\ pc'[w] # at /\ lv[w].t.id = id

OneIf(b) == IF b THEN 1 ELSE 0

\* C36: with a history store, a failed attempt that is retried (retry_count
\* < max_retries after the increment) makes exactly one IncrementRetryCount
\* call and exactly one FailTask call, after its Enqueue; a failed attempt
\* that exhausts the retries makes exactly one MoveTaskToDLQ call, after its
\* UpdateTask, and no FailTask call; nothing else makes these calls.
C36_FailureStoreCalls ==
    [][ repo # "none" =>
          \A id \in TaskIDs :
            /\ Calls("IncrementRetryCount", id)' = Calls("IncrementRetryCount", id)
                 + OneIf(\E w \in Workers : StoreCallStep(w, id, "rp_incr"))
            /\ Calls("FailTask", id)' = Calls("FailTask", id)
                 + OneIf(\E w \in Workers : StoreCallStep(w, id, "rp_fail"))
            /\ Calls("MoveTaskToDLQ", id)' = Calls("MoveTaskToDLQ", id)
                 + OneIf(\E w \in Workers : StoreCallStep(w, id, "dlq_move"))
            /\ \A w \in Workers :
                 /\ StoreCallStep(w, id, "enq_task") => pc'[w] = "rp_incr"
                 /\ StoreCallStep(w, id, "rp_incr")
                      => /\ pc'[w] = "rp_fail"
                         /\ lv[w].t.retry_count >= 1
                         /\ lv[w].t.retry_count < lv[w].t.max_retries
                 /\ StoreCallStep(w, id, "rp_fail") => pc'[w] = "idle"
                 /\ pc'[w] = "rp_incr" => pc[w] \in { "enq_task", "rp_incr" }
                 /\ pc'[w] = "rp_fail" => pc[w] \in { "rp_incr", "rp_fail" }
                 /\ StoreCallStep(w, id, "hf_update") => pc'[w] = "dlq_move"
                 /\ pc'[w] = "dlq_move" => pc[w] \in { "hf_update", "dlq_move" }
                 /\ StoreCallStep(w, id, "dlq_move")
                      => /\ pc'[w] = "dlq_incr"
                         /\ lv[w].t.retry_count >= lv[w].t.max_retries ]_vars

\* A task failed three times with a history store: the first two attempts
\* were retried, the third moved it to the dead-letter queue.
C36_Witness ==
    \E id \in DOMAIN dlqRec :
        /\ repo # "none"
        /\ dlqRec[id].max_retries = 3 /\ dlqRec[id].retry_count = 3
        /\ Calls("IncrementRetryCount", id) = 2
        /\ Calls("FailTask", id) = 2
        /\ Calls("MoveTaskToDLQ", id) = 1
        /\ \A p \in Procs : pc[p] = "idle"

\* The slots a Dequeue would return a task from: above queue:head, with an
\* item key whose task record is stored.
DequeuableSlots == { q \in DOMAIN item : q > head /\ item[q] \in DOMAIN rec }

EnqueuePcs == { "enq_save", "enq_incr", "enq_item", "enq_task" }

\* C37: a retry_dead_letter(id) that returns an error (no dead-letter record
\* of id, or a failing command of its Enqueue) leaves the dead-letter records
\* as they were, and no task has become dequeuable through it: the call for a
\* missing id changes no slot, and the slot a failed Enqueue was given is not
\* one a Dequeue returns a task from.
C37_FailedRetryChangesNothing ==
    [][ /\ (budget'.retries < budget.retries /\ budget'.faults < budget.faults)
             => (dlqRec' = dlqRec /\ DequeuableSlots' = DequeuableSlots)
        /\ \A c \in Clients :
             (pc[c] \in EnqueuePcs /\ lv[c].op = "retry_dlq")
             => /\ dlqRec' = dlqRec
                /\ (pc'[c] = "idle" /\ budget'.faults < budget.faults)
                     => lv[c].seq \notin DequeuableSlots' ]_vars

\* Attempts of task id that were logged as started with attempt_number n.
AttemptsLogged(id, n) ==
    BagSum(execLog, { r \in DOMAIN execLog :
                        r.task_id = id /\ r.attempt_number = n /\ r.status = RunningStatus })

\* C38: no two attempts of one task are logged with the same attempt_number,
\* also after retry_dead_letter has put the task back into the queue: of a
\* task that retry_dead_letter was called for, every attempt number in the
\* execution log was logged for one attempt only.
C38_AttemptNumbersIncrease ==
    \A r \in DOMAIN execLog :
        (r.status = RunningStatus /\ r.task_id \in dlqRetried)
        => AttemptsLogged(r.task_id, r.attempt_number) = 1

\* C39: the report handler with schedule_in > 0 stays in its wait until the
\* delay has elapsed or its context is done, whichever comes first.  When the
\* context is done first, and when it is done after the data was generated,
\* the handler returns the context's error and writes no file; it reaches the
\* save step, the only step that writes a file, only with a live context.
C39_ReportHonoursContext ==
    [][ /\ (report.pc = "wait" /\ report.woke = "") => report'.pc = "wait"
        /\ (report.woke = "" /\ report'.woke = "ctx")
             => (report'.ctx # "nil" /\ report'.left > 0)
        /\ (report.woke = "" /\ report'.woke = "timer")
             => (report.ctx = "nil" /\ report'.left = 0)
        /\ (report.pc = "wait" /\ report'.pc # "wait")
             => IF report.woke = "ctx"
                  THEN /\ report'.pc = "returned"
                       /\ report.ctx # "nil" /\ report'.err = report.ctx
                       /\ ~report'.file
                  ELSE report.left = 0 /\ report'.pc = "generate"
        /\ (report.pc = "check" /\ report'.pc # "check" /\ report.ctx # "nil")
             => /\ report'.pc = "returned"
                /\ report'.err = report.ctx
                /\ ~report'.file
        /\ (report.pc # "save" /\ report'.pc = "save")
             => (report.pc = "check" /\ report.ctx = "nil")
        /\ (report'.file /\ ~report.file) => report.pc = "save" ]_vars

\* A handler with schedule_in = 2 was cancelled after one second of its wait
\* and has returned context.Canceled without a file.
C39_Witness ==
    /\ report.pc = "returned"
    /\ report.schedule_in = 2 /\ report.left = 1
    /\ report.doneAt = "wait" /\ report.woke = "ctx"
    /\ report.err = "canceled"
    /\ ~report.file

====
